---------------------------- MODULE Spec2Model ----------------------------
(***************************************************************************)
(* The Superstore dashboard script (src/src/app.py) as a state machine.    *)
(* One run of the script is one step: the first run loads and caches the   *)
(* dataset, every later run is triggered by a change of one sidebar        *)
(* multiselect and recomputes the filtered frame, the four metrics, the    *)
(* five chart tables and the CSV export.                                   *)
(*                                                                         *)
(* Cells of a loaded frame are records [na, v]: na marks NaN/NaT/<NA>.     *)
(* Amounts are integers (the arithmetic of the script is exact on them).   *)
(* sort_values is called with pandas' default kind="quicksort", which is   *)
(* not stable: the order of rows with equal keys is any order.             *)
(***************************************************************************)
EXTENDS Integers, Sequences, FiniteSets, TLC

VARIABLES
    file,               \* data/Superstore.csv: [columns, rows of raw text]
    cache,              \* the st.cache_data entry of load_data
    df,                 \* app.py:46
    category_sel,       \* app.py:69
    subcategory_sel,    \* app.py:70
    region_sel,         \* app.py:71
    year_sel,           \* app.py:72
    filtered_df,        \* app.py:75-83
    total_sales,        \* app.py:88
    total_profit,       \* app.py:89
    total_orders,       \* app.py:90-93
    avg_profit_margin,  \* app.py:95, as the exact ratio num/den
    trend_df,           \* app.py:112
    prod_df,            \* app.py:128
    reg_df,             \* app.py:141
    ship_df,            \* app.py:150
    state_sales,        \* app.py:163
    csv,                \* app.py:176
    info,               \* the st.info / st.sidebar.info notices of the run
    raised              \* the exception that ended the run, "none" if none

vars == <<file, cache, df, category_sel, subcategory_sel, region_sel, year_sel,
          filtered_df, total_sales, total_profit, total_orders,
          avg_profit_margin, trend_df, prod_df, reg_df, ship_df, state_sales,
          csv, info, raised>>

-----------------------------------------------------------------------------
(* Bounds of the model *)

\* rows of a file built from the row catalogue
MaxRows == 2
\* rows of a file of the many-states family
MaxStateRows == 12

\* .head(10)
TopN == 10

-----------------------------------------------------------------------------
(* Columns and cells *)

TextCols == {"Order ID", "Ship Mode", "Category", "Sub-Category", "Region", "State"}
AllCols  == TextCols \cup {"Order Date", "Sales", "Profit", "Year"}

NaN      == [na |-> TRUE, v |-> 0]
NaText   == [na |-> TRUE, v |-> ""]
Num(n)   == [na |-> FALSE, v |-> n]
Text(s)  == [na |-> FALSE, v |-> s]

\* the cells pandas.read_csv reads as missing
NaValues == {"", "NA", "N/A", "NaN", "null"}

\* Python's str order (code points) on the strings of the model
Collation ==
    << "", "A1", "A2", "A3", "Alabama", "Arizona", "California", "Chairs",
       "Colorado", "Delaware", "East", "First", "Florida", "Furniture",
       "Georgia", "Idaho", "Indiana", "Iowa", "Kansas", "Maine", "Nevada",
       "Office", "Ohio", "Oregon", "Paper", "Second", "Tables", "Texas",
       "Utah", "West" >>

StrRank(s) == CHOOSE i \in 1..Len(Collation) : Collation[i] = s

\* the sort key of a value of column c: str order for text, numeric otherwise
Rank(c, x) == IF c \in TextCols THEN StrRank(x) ELSE x

Digits == << "0", "1", "2", "3", "4", "5", "6", "7", "8", "9" >>
IsDigit(ch)  == \E i \in 1..Len(Digits) : Digits[i] = ch
DigitVal(ch) == (CHOOSE i \in 1..Len(Digits) : Digits[i] = ch) - 1
AllDigits(s) == \A i \in 1..Len(s) : IsDigit(s[i])

RECURSIVE Number(_)
Number(s) ==
    IF s = <<>> THEN 0
    ELSE Number(SubSeq(s, 1, Len(s) - 1)) * 10 + DigitVal(s[Len(s)])

-----------------------------------------------------------------------------
(* Orders *)

RECURSIVE Perms(_)
Perms(S) ==
    IF S = {} THEN {<<>>}
    ELSE UNION {{<<x>> \o p : p \in Perms(S \ {x})} : x \in S}

\* every sequence of the elements of S in ascending order of the key K[x]: what an
\* unstable sort can return
RECURSIVE Orderings(_, _)
Orderings(S, K) ==
    IF S = {} THEN {<<>>}
    ELSE LET lo    == CHOOSE k \in {K[x] : x \in S} : \A x \in S : k <= K[x]
             first == {x \in S : K[x] = lo}
         IN  {p \o q : p \in Perms(first), q \in Orderings(S \ first, K)}

Range(s) == {s[i] : i \in 1..Len(s)}

-----------------------------------------------------------------------------
(* load_data *)

\* pd.to_numeric(errors="coerce") on one cell of text: an optionally signed
\* run of digits is its value, anything else is NaN
to_numeric(s) ==
    IF s = <<>> THEN NaN
    ELSE LET body == IF s[1] \in {"-", "+"} THEN Tail(s) ELSE s
         IN  IF body # <<>> /\ AllDigits(body)
             THEN Num(IF s[1] = "-" THEN 0 - Number(body) ELSE Number(body))
             ELSE NaN

DaysIn(m, y) ==
    IF m = 2
    THEN (IF (y % 4 = 0 /\ y % 100 # 0) \/ y % 400 = 0 THEN 29 ELSE 28)
    ELSE IF m \in {4, 6, 9, 11} THEN 30 ELSE 31

\* pd.to_datetime(errors="coerce", dayfirst=True) on one cell of text in the
\* dataset's format DD/MM/YYYY; a date is the number YYYYMMDD, which orders
\* as the dates do; anything else is NaT
to_datetime(s) ==
    IF /\ Len(s) = 10
       /\ s[3] = "/" /\ s[6] = "/"
       /\ AllDigits(SubSeq(s, 1, 2) \o SubSeq(s, 4, 5) \o SubSeq(s, 7, 10))
    THEN LET d == Number(SubSeq(s, 1, 2))
             m == Number(SubSeq(s, 4, 5))
             y == Number(SubSeq(s, 7, 10))
         IN  IF m \in 1..12 /\ d \in 1..DaysIn(m, y)
             THEN Num(y * 10000 + m * 100 + d)
             ELSE NaN
    ELSE NaN

\* Series.dt.year
dt_year(t) == IF t.na THEN NaN ELSE Num(t.v \div 10000)

\* pd.read_csv: the header's columns, a RangeIndex, missing text cells as NaN;
\* the cells of the other columns stay text until load_data converts them
read_csv(f) ==
    [columns |-> f.columns,
     rows    |-> [i \in 1..Len(f.rows) |->
                    [index |-> i - 1,
                     cell  |-> [c \in f.columns |->
                                  IF c \in TextCols
                                  THEN (IF f.rows[i][c] \in NaValues
                                        THEN NaText
                                        ELSE Text(f.rows[i][c]))
                                  ELSE f.rows[i][c]]]]]

\* frame[c] = pd.to_datetime(frame[c], ...) or pd.to_numeric(frame[c], ...),
\* cell by cell
Convert(frame, c, to) ==
    [frame EXCEPT !.rows =
        [i \in 1..Len(frame.rows) |->
            [frame.rows[i] EXCEPT !.cell[c] =
                IF to = "datetime" THEN to_datetime(@) ELSE to_numeric(@)]]]

\* df["Year"] = df["Order Date"].dt.year, a new column
AddYear(frame) ==
    [columns |-> frame.columns \cup {"Year"},
     rows    |-> [i \in 1..Len(frame.rows) |->
                    [index |-> frame.rows[i].index,
                     cell  |-> [k \in frame.columns \cup {"Year"} |->
                                  IF k = "Year"
                                  THEN dt_year(frame.rows[i].cell["Order Date"])
                                  ELSE frame.rows[i].cell[k]]]]]

\* mutant of sort_values: the frame is left in file order
sort_values_unsorted(frame, c) == {frame}

\* DataFrame.sort_values(c), ascending, na_position="last": the rows with a
\* key in ascending order (equal keys in any order), then the rows without,
\* these in the order they had
sort_values(frame, c) ==
    LET keyed   == {r \in Range(frame.rows) : ~r.cell[c].na}
        key     == [r \in keyed |-> r.cell[c].v]
        missing == SelectSeq(frame.rows, LAMBDA r : r.cell[c].na)
    IN  {[frame EXCEPT !.rows = s \o missing] : s \in Orderings(keyed, key)}

\* app.py:26-28
LoadDates(frame) ==
    IF "Order Date" \in frame.columns
    THEN sort_values(Convert(frame, "Order Date", "datetime"), "Order Date")
    ELSE {frame}

\* app.py:31-32 and 40-41: a Year derived from the dates is numeric already
\* (<NA> where the date is NaT), a Year read from the file is text to convert
LoadYear(frame) ==
    IF "Year" \notin frame.columns /\ "Order Date" \in frame.columns
    THEN AddYear(frame)
    ELSE IF "Year" \in frame.columns
         THEN Convert(frame, "Year", "numeric")
         ELSE frame

\* app.py:35-37
LoadAmounts(frame) ==
    LET s == IF "Sales" \in frame.columns
             THEN Convert(frame, "Sales", "numeric") ELSE frame
    IN  IF "Profit" \in s.columns THEN Convert(s, "Profit", "numeric") ELSE s

\* the frames load_data can return for a file
load_data(f) == {LoadAmounts(LoadYear(d)) : d \in LoadDates(read_csv(f))}


\* mutant of cached_load_data: load_data without @st.cache_data, every run
\* reads and sorts the file again
uncached_load_data(c, f) == load_data(f)

\* st.cache_data: the first call computes and stores, later calls return the
\* stored frame
cached_load_data(c, f) == IF c.hit THEN {c.value} ELSE load_data(f)

-----------------------------------------------------------------------------
(* The sidebar filters *)

FilterCols == {"Category", "Sub-Category", "Region", "Year"}

None         == [none |-> TRUE, vals |-> {}]
Selection(S) == [none |-> FALSE, vals |-> S]

\* row[c]; a column the frame lacks reads as missing (the run has raised
\* KeyError by then, see Raises)
Col(r, c) == IF c \in DOMAIN r.cell THEN r.cell[c] ELSE NaN

\* app.py:61-63: frame[col].dropna() (the Year column holds integers already)
Values(frame, col) ==
    {Col(r, col).v : r \in {x \in Range(frame.rows) : ~Col(x, col).na}}

\* app.py:64: sorted(series.unique().tolist(), key=str); on the four-digit
\* years of the model str order is numeric order
options(frame, col) ==
    LET S == Values(frame, col)
    IN  CHOOSE s \in Orderings(S, [x \in S |-> Rank(col, x)]) : TRUE

\* app.py:53-66; chosen is what the widget holds: its default, all options,
\* until the user changes it
multiselect_for_column(frame, col, chosen) ==
    IF col \notin frame.columns THEN None ELSE Selection(chosen)

\* app.py:58
SidebarInfo(frame) ==
    {[at |-> "sidebar", about |-> col] : col \in FilterCols \ frame.columns}

\* Series.isin(values) on one cell: a missing cell is in no list
isin(cell, values) == ~cell.na /\ cell.v \in values

\* mutant of Mask: an empty selection is taken to mean no filter
MaskEmptyMeansAll(frame, col, sel) ==
    IF sel.vals = {} THEN frame
    ELSE [frame EXCEPT !.rows = SelectSeq(@, LAMBDA r : isin(Col(r, col), sel.vals))]

\* frame[frame[col].isin(sel)]
Mask(frame, col, sel) ==
    [frame EXCEPT !.rows = SelectSeq(@, LAMBDA r : isin(Col(r, col), sel.vals))]

\* mutant of FilteredDf: the Region filter is left out
FilteredDfWithoutRegion(d, cat, sub, reg, yr) ==
    LET f1 == IF ~cat.none THEN Mask(d, "Category", cat) ELSE d
        f2 == IF ~sub.none THEN Mask(f1, "Sub-Category", sub) ELSE f1
    IN  IF ~yr.none /\ "Year" \in f2.columns THEN Mask(f2, "Year", yr) ELSE f2

\* app.py:75-83
FilteredDf(d, cat, sub, reg, yr) ==
    LET f1 == IF ~cat.none THEN Mask(d, "Category", cat) ELSE d
        f2 == IF ~sub.none THEN Mask(f1, "Sub-Category", sub) ELSE f1
        f3 == IF ~reg.none THEN Mask(f2, "Region", reg) ELSE f2
    IN  IF ~yr.none /\ "Year" \in f3.columns THEN Mask(f3, "Year", yr) ELSE f3

-----------------------------------------------------------------------------
(* Metrics *)

\* Series.sum(): missing cells are skipped, the empty sum is 0
RECURSIVE SumCells(_, _)
SumCells(rows, c) ==
    IF rows = <<>> THEN 0
    ELSE (IF Col(Head(rows), c).na THEN 0 ELSE Col(Head(rows), c).v)
         + SumCells(Tail(rows), c)

\* app.py:88
TotalSales(view) ==
    IF "Sales" \in view.columns THEN SumCells(view.rows, "Sales") ELSE 0

\* app.py:89
TotalProfit(view) ==
    IF "Profit" \in view.columns THEN SumCells(view.rows, "Profit") ELSE 0

\* mutant of TotalOrders: the rows are counted, not the distinct orders
TotalOrdersByRows(view) == Len(view.rows)

\* app.py:90-93: Series.nunique() does not count missing cells
TotalOrders(view) ==
    IF "Order ID" \in view.columns
    THEN Cardinality(Values(view, "Order ID"))
    ELSE Len(view.rows)

\* mutant of AvgProfitMargin: only a zero total is guarded
AvgProfitMarginNonZero(sales, profit) ==
    IF sales # 0
    THEN [num |-> profit * 100, den |-> sales]
    ELSE [num |-> 0, den |-> 1]

\* app.py:95: total_profit / total_sales * 100 as the ratio num/den
AvgProfitMargin(sales, profit) ==
    IF sales # 0 /\ sales > 0
    THEN [num |-> profit * 100, den |-> sales]
    ELSE [num |-> 0, den |-> 1]

-----------------------------------------------------------------------------
(* Chart tables *)

Skipped  == [shown |-> FALSE, table |-> <<>>]
Shown(t) == [shown |-> TRUE, table |-> t]

\* all(c in filtered_df.columns for c in cols) and not filtered_df.empty
Chartable(view, cols) == cols \subseteq view.columns /\ view.rows # <<>>

KeyOf(r, by)  == [i \in 1..Len(by) |-> Col(r, by[i]).v]
HasKey(r, by) == \A i \in 1..Len(by) : ~Col(r, by[i]).na

\* the order of group keys: by the first column, then the next
KeyLess(by, a, b) ==
    \E i \in 1..Len(by) :
        /\ \A j \in 1..(i - 1) : a[j] = b[j]
        /\ Rank(by[i], a[i]) < Rank(by[i], b[i])

\* frame.groupby(by)["Sales"].sum().reset_index(): one row per group key, the
\* keys in ascending order (sort=True), rows with a missing key left out
\* (dropna=True), missing amounts skipped by the sum
groupby_sum(rows, by) ==
    LET keyed == SelectSeq(rows, LAMBDA r : HasKey(r, by))
        keys  == {KeyOf(r, by) : r \in Range(keyed)}
        nth(i) == CHOOSE k \in keys :
                      Cardinality({j \in keys : KeyLess(by, j, k)}) = i - 1
    IN  [i \in 1..Cardinality(keys) |->
            [key   |-> nth(i),
             Sales |-> SumCells(SelectSeq(keyed, LAMBDA r : KeyOf(r, by) = nth(i)),
                                "Sales")]]

\* mutant of sort_by_sales_desc: the table is left in group-key order
sort_by_sales_missing(table) == {table}

\* table.sort_values("Sales", ascending=False): the sums are never missing;
\* equal sums come in any order
sort_by_sales_desc(table) ==
    Orderings(Range(table), [t \in Range(table) |-> 0 - t.Sales])

\* mutant of head: nothing is cut off
head_all(table, n) == table

\* DataFrame.head(n)
head(table, n) == SubSeq(table, 1, IF Len(table) < n THEN Len(table) ELSE n)

\* mutant of RegGuard: the region chart also asks for the State column
RegGuardWithState(view) == Chartable(view, {"Region", "Sales", "State"})

TrendGuard(view) == Chartable(view, {"Order Date", "Sales"})
ProdGuard(view)  == Chartable(view, {"Sub-Category", "Sales"})
RegGuard(view)   == Chartable(view, {"Region", "Sales"})
ShipGuard(view)  == Chartable(view, {"Ship Mode", "Sales"})
StateGuard(view) == Chartable(view, {"State", "Sales"})

\* app.py:110-123
TrendDf(view) ==
    IF TrendGuard(view)
    THEN LET group_cols == <<"Order Date">> \o
                 (IF "Year" \in view.columns THEN <<"Year">> ELSE <<>>)
             kept == SelectSeq(view.rows, LAMBDA r :
                         ~Col(r, "Order Date").na /\ ~Col(r, "Sales").na)
         IN  Shown(groupby_sum(kept, group_cols))
    ELSE Skipped

\* app.py:127-136
ProdDf(view) ==
    IF ProdGuard(view)
    THEN {Shown(t) : t \in sort_by_sales_desc(groupby_sum(view.rows, <<"Sub-Category">>))}
    ELSE {Skipped}

\* app.py:140-145
RegDf(view) ==
    IF RegGuard(view)
    THEN Shown(groupby_sum(view.rows, <<"Region">>))
    ELSE Skipped

\* app.py:149-158
ShipDf(view) ==
    IF ShipGuard(view)
    THEN {Shown(t) : t \in sort_by_sales_desc(groupby_sum(view.rows, <<"Ship Mode">>))}
    ELSE {Skipped}

\* app.py:162-172
StateSales(view) ==
    IF StateGuard(view)
    THEN {Shown(head(t, TopN)) :
            t \in sort_by_sales_desc(groupby_sum(view.rows, <<"State">>))}
    ELSE {Skipped}

\* the st.info of the else branches, named by the subheader they appear under
ChartInfo(view) ==
    {[at |-> "chart", about |-> n] : n \in
        {n \in {"Sales Trends Over Time", "Product Performance", "Sales by Region",
                "Shipping Analysis", "Location Analysis"} :
            \/ n = "Sales Trends Over Time" /\ ~TrendGuard(view)
            \/ n = "Product Performance" /\ ~ProdGuard(view)
            \/ n = "Sales by Region" /\ ~RegGuard(view)
            \/ n = "Shipping Analysis" /\ ~ShipGuard(view)
            \/ n = "Location Analysis" /\ ~StateGuard(view)}}

\* the statements of the script that index a column, each with the condition
\* it runs under: indexing a column the frame lacks raises KeyError
Raises(d, view, cat, sub, reg, yr) ==
    LET reads ==
          { <<~cat.none, {"Category"}>>, <<~sub.none, {"Sub-Category"}>>,
            <<~reg.none, {"Region"}>>,
            <<~yr.none /\ "Year" \in d.columns, {"Year"}>>,
            <<"Sales" \in view.columns, {"Sales"}>>,
            <<"Profit" \in view.columns, {"Profit"}>>,
            <<"Order ID" \in view.columns, {"Order ID"}>>,
            <<TrendGuard(view), {"Order Date", "Sales"}>>,
            <<ProdGuard(view), {"Sub-Category", "Sales"}>>,
            <<RegGuard(view), {"Region", "Sales"}>>,
            <<ShipGuard(view), {"Ship Mode", "Sales"}>>,
            <<StateGuard(view), {"State", "Sales"}>> }
    IN  IF \E x \in reads : x[1] /\ ~(x[2] \subseteq d.columns)
        THEN "KeyError" ELSE "none"

\* app.py:176: to_csv(index=False) writes the columns and every row's cells,
\* without the index
to_csv(view) ==
    [columns |-> view.columns,
     rows    |-> [i \in 1..Len(view.rows) |-> view.rows[i].cell]]

-----------------------------------------------------------------------------
(* The input files *)

RawRow(oid, date, ship, cat, sub, reg, st, sales, profit, year) ==
    [c \in AllCols |->
        CASE c = "Order ID"     -> oid
          [] c = "Order Date"   -> date
          [] c = "Ship Mode"    -> ship
          [] c = "Category"     -> cat
          [] c = "Sub-Category" -> sub
          [] c = "Region"       -> reg
          [] c = "State"        -> st
          [] c = "Sales"        -> sales
          [] c = "Profit"       -> profit
          [] c = "Year"         -> year]

\* rows a Superstore file can hold: two plain orders, a second line of the
\* first order (same amount, earlier date, another sub-category), a row of
\* blanks and unparsable cells, and a refund (negative amounts)
Catalogue ==
    << RawRow("A1", <<"3","1","/","1","0","/","2","0","1","5">>, "First",
              "Furniture", "Chairs", "East", "Ohio",
              <<"1","0","0">>, <<"2","0">>, <<"2","0","1","5">>),
       RawRow("A2", <<"0","5","/","0","1","/","2","0","1","6">>, "Second",
              "Furniture", "Tables", "West", "Utah",
              <<"2","0","0">>, <<"-","1","0">>, <<"2","0","1","6">>),
       RawRow("A1", <<"3","0","/","1","0","/","2","0","1","5">>, "First",
              "Office", "Paper", "East", "Ohio",
              <<"1","0","0">>, <<"5">>, <<"2","0","1","5">>),
       RawRow("", <<"n","/","a">>, "", "", "Tables", "West", "",
              <<"a","b","c">>, <<"7">>, <<>>),
       RawRow("A3", <<"0","1","/","1","1","/","2","0","1","5">>, "Second",
              "Office", "Chairs", "West", "Iowa",
              <<"-","5","0">>, <<"-","2","0">>, <<"2","0","1","5">>) >>

\* the files of up to MaxRows catalogue rows with every column
CatalogueFiles ==
    {[columns |-> AllCols, rows |-> [i \in 1..Len(t) |-> Catalogue[t[i]]]] :
        t \in UNION {[1..n -> 1..Len(Catalogue)] : n \in 0..MaxRows}}

\* the headers that lack one column, or both Year and Order Date
LackingColumnSets ==
    {AllCols \ {c} : c \in AllCols} \cup {AllCols \ {"Year", "Order Date"}}

\* the catalogue rows used in the files that lack a column
LackingRows == {1, 2, 4}

LackingFiles ==
    {[columns |-> cs,
      rows    |-> [i \in 1..Len(t) |-> [c \in cs |-> Catalogue[t[i]][c]]]] :
        cs \in LackingColumnSets,
        t \in UNION {[1..n -> LackingRows] : n \in 0..MaxRows}}

RECURSIVE IntText(_)
IntText(n) ==
    IF n < 10 THEN <<Digits[n + 1]>>
    ELSE IntText(n \div 10) \o <<Digits[(n % 10) + 1]>>

StateNames ==
    << "Alabama", "Arizona", "California", "Colorado", "Delaware", "Florida",
       "Georgia", "Idaho", "Indiana", "Kansas", "Maine", "Nevada", "Oregon",
       "Texas" >>

\* row i of a file with one state per row: distinct days of January 2015, not
\* in date order, amounts growing with i, every fourth row repeating the
\* amount before it
StateRow(i) ==
    LET day == ((i * 11) % 28) + 1
    IN  RawRow(<<"A1", "A2", "A3">>[(i % 3) + 1],
               (IF day < 10 THEN <<"0">> ELSE <<>>) \o IntText(day)
                   \o <<"/","0","1","/","2","0","1","5">>,
               <<"First", "Second">>[(i % 2) + 1],
               <<"Furniture", "Office">>[(i % 2) + 1],
               "Chairs", "East",
               StateNames[((i - 1) % Len(StateNames)) + 1],
               IntText(10 * (IF i % 4 = 3 THEN i - 1 ELSE i)),
               <<"5">>, <<"2","0","1","5">>)

StateFiles ==
    {[columns |-> AllCols, rows |-> [i \in 1..n |-> StateRow(i)]] :
        n \in 1..MaxStateRows}

-----------------------------------------------------------------------------
(* The runs of the script *)

EmptyFrame == [columns |-> {}, rows |-> <<>>]

\* before the first run: a file on disk, nothing cached, nothing rendered
Init ==
    /\ file \in CatalogueFiles \cup LackingFiles \cup StateFiles
    /\ cache = [hit |-> FALSE, value |-> EmptyFrame]
    /\ df = EmptyFrame
    /\ category_sel = None
    /\ subcategory_sel = None
    /\ region_sel = None
    /\ year_sel = None
    /\ filtered_df = EmptyFrame
    /\ total_sales = 0
    /\ total_profit = 0
    /\ total_orders = 0
    /\ avg_profit_margin = [num |-> 0, den |-> 1]
    /\ trend_df = Skipped
    /\ prod_df = Skipped
    /\ reg_df = Skipped
    /\ ship_df = Skipped
    /\ state_sales = Skipped
    /\ csv = to_csv(EmptyFrame)
    /\ info = {}
    /\ raised = "none"

\* app.py:46-177, one run of the script on the frame d with the widgets
\* holding wcat, wsub, wreg and wyr
RunScript(d, wcat, wsub, wreg, wyr) ==
    LET cat  == multiselect_for_column(d, "Category", wcat)
        sub  == multiselect_for_column(d, "Sub-Category", wsub)
        reg  == multiselect_for_column(d, "Region", wreg)
        yr   == multiselect_for_column(d, "Year", wyr)
        view == FilteredDf(d, cat, sub, reg, yr)
    IN  /\ cache' = [hit |-> TRUE, value |-> d]
        /\ df' = d
        /\ category_sel' = cat
        /\ subcategory_sel' = sub
        /\ region_sel' = reg
        /\ year_sel' = yr
        /\ filtered_df' = view
        /\ total_sales' = TotalSales(view)
        /\ total_profit' = TotalProfit(view)
        /\ total_orders' = TotalOrders(view)
        /\ avg_profit_margin' = AvgProfitMargin(TotalSales(view), TotalProfit(view))
        /\ trend_df' = TrendDf(view)
        /\ prod_df' \in ProdDf(view)
        /\ reg_df' = RegDf(view)
        /\ ship_df' \in ShipDf(view)
        /\ state_sales' \in StateSales(view)
        /\ csv' = to_csv(view)
        /\ info' = SidebarInfo(d) \cup ChartInfo(view)
        /\ raised' = Raises(d, view, cat, sub, reg, yr)
        /\ UNCHANGED file

\* the first run: load_data computes the frame, every multiselect starts at
\* its default, all of its options
FirstRun ==
    /\ ~cache.hit
    /\ \E d \in cached_load_data(cache, file) :
          RunScript(d, Values(d, "Category"), Values(d, "Sub-Category"),
                    Values(d, "Region"), Values(d, "Year"))

\* the user adds or removes one option v of a multiselect
Toggle(S, v) == IF v \in S THEN S \ {v} ELSE S \cup {v}

ToggleCategory ==
    /\ cache.hit /\ ~category_sel.none
    /\ \E d \in cached_load_data(cache, file) :
       \E v \in Range(options(d, "Category")) :
          RunScript(d, Toggle(category_sel.vals, v), subcategory_sel.vals,
                    region_sel.vals, year_sel.vals)

ToggleSubCategory ==
    /\ cache.hit /\ ~subcategory_sel.none
    /\ \E d \in cached_load_data(cache, file) :
       \E v \in Range(options(d, "Sub-Category")) :
          RunScript(d, category_sel.vals, Toggle(subcategory_sel.vals, v),
                    region_sel.vals, year_sel.vals)

ToggleRegion ==
    /\ cache.hit /\ ~region_sel.none
    /\ \E d \in cached_load_data(cache, file) :
       \E v \in Range(options(d, "Region")) :
          RunScript(d, category_sel.vals, subcategory_sel.vals,
                    Toggle(region_sel.vals, v), year_sel.vals)

ToggleYear ==
    /\ cache.hit /\ ~year_sel.none
    /\ \E d \in cached_load_data(cache, file) :
       \E v \in Range(options(d, "Year")) :
          RunScript(d, category_sel.vals, subcategory_sel.vals,
                    region_sel.vals, Toggle(year_sel.vals, v))

\* a rerun with the widgets unchanged (the download button is pressed)
Rerun ==
    /\ cache.hit
    /\ \E d \in cached_load_data(cache, file) :
          RunScript(d, category_sel.vals, subcategory_sel.vals,
                    region_sel.vals, year_sel.vals)

Next ==
    \/ FirstRun
    \/ ToggleCategory
    \/ ToggleSubCategory
    \/ ToggleRegion
    \/ ToggleYear
    \/ Rerun

Spec == Init /\ [][Next]_vars

-----------------------------------------------------------------------------
(* Properties *)

Loaded == cache.hit

\* what the multiselect of a filter column returned in the last run
Sel(col) ==
    CASE col = "Category"     -> category_sel
      [] col = "Sub-Category" -> subcategory_sel
      [] col = "Region"       -> region_sel
      [] col = "Year"         -> year_sel

\* every multiselect holds its default, the complete option set
FullSelection ==
    \A col \in FilterCols \cap df.columns :
        ~Sel(col).none /\ Sel(col).vals = Range(options(df, col))

IsZero(ratio) == ratio.num = 0

\* C1 (as claimed): with the full selection on every filter column that
\* exists, the filtered frame equals the loaded frame, no row dropped.
C1_IdentityLaw ==
    (Loaded /\ FullSelection) => filtered_df = df

\* C2: a row of the dataset is in the filtered frame exactly when, for every
\* filter column the dataset has, its value is one of the selected values;
\* a filter column the dataset lacks has no selection and filters nothing.
C2_FilterSoundAndComplete ==
    Loaded =>
        /\ \A col \in FilterCols : Sel(col).none <=> col \notin df.columns
        /\ \A r \in Range(df.rows) :
              r \in Range(filtered_df.rows) <=>
                 \A col \in FilterCols \cap df.columns :
                    ~r.cell[col].na /\ r.cell[col].v \in Sel(col).vals
        /\ Range(filtered_df.rows) \subseteq Range(df.rows)

C2_Witness ==
    /\ Loaded
    /\ FilterCols \subseteq df.columns
    /\ filtered_df.rows # <<>>
    /\ Len(filtered_df.rows) < Len(df.rows)
    /\ category_sel.vals # Range(options(df, "Category"))
    /\ region_sel.vals # {}

\* C3 (as claimed): the margin is 0 when total sales is 0 and is
\* total_profit / total_sales * 100 for every other total, a negative one
\* included.
C3_MarginForEveryNonZeroTotal ==
    Loaded =>
        IF total_sales = 0
        THEN IsZero(avg_profit_margin)
        ELSE avg_profit_margin.num * total_sales
                = total_profit * 100 * avg_profit_margin.den

\* C3 (amended): the margin is total_profit / total_sales * 100 when total
\* sales is positive, and exactly 0 when total sales is zero or negative.
C3_MarginForPositiveTotal ==
    Loaded =>
        /\ avg_profit_margin.den # 0
        /\ IF total_sales > 0
           THEN avg_profit_margin.num * total_sales
                   = total_profit * 100 * avg_profit_margin.den
           ELSE IsZero(avg_profit_margin)

C3_Witness ==
    /\ Loaded
    /\ total_sales < 0
    /\ total_profit # 0
    /\ IsZero(avg_profit_margin)

\* C4: an empty selection on a filter column the dataset has gives an empty
\* filtered frame, whatever the other selections, and all four metrics 0.
C4_EmptySelectionEmptiesView ==
    (Loaded /\ \E col \in FilterCols \cap df.columns : Sel(col).vals = {}) =>
        /\ filtered_df.rows = <<>>
        /\ total_sales = 0
        /\ total_profit = 0
        /\ total_orders = 0
        /\ IsZero(avg_profit_margin)

C4_Witness ==
    /\ Loaded
    /\ Len(df.rows) >= 2
    /\ ~year_sel.none /\ year_sel.vals = {}
    /\ category_sel.vals = Range(options(df, "Category")) /\ category_sel.vals # {}
    /\ filtered_df.rows = <<>>

\* the ranked tables with the column each is grouped by
Ranked ==
    { [by |-> "Sub-Category", out |-> prod_df],
      [by |-> "Ship Mode",    out |-> ship_df],
      [by |-> "State",        out |-> state_sales] }

\* the position in the filtered frame of the first row of group k
FirstSeen(by, k) ==
    CHOOSE i \in 1..Len(filtered_df.rows) :
        /\ isin(Col(filtered_df.rows[i], by), {k})
        /\ \A j \in 1..(i - 1) : ~isin(Col(filtered_df.rows[j], by), {k})

FillCells(c) ==
    LET d == CHOOSE d \in load_data([columns |-> AllCols,
                                     rows |-> <<Catalogue[2], Catalogue[4]>>]) : TRUE
    IN  {r.cell[c] : r \in Range(d.rows)}

\* the frame with column c restored, row i holding g[i]
WithCol(frame, c, g) ==
    [columns |-> frame.columns \cup {c},
     rows    |-> [i \in 1..Len(frame.rows) |->
                    [index |-> frame.rows[i].index,
                     cell  |-> [k \in frame.columns \cup {c} |->
                                  IF k = c THEN g[i]
                                  ELSE frame.rows[i].cell[k]]]]]

\* the frames with the same rows as frame and the columns M restored
RECURSIVE Restored(_, _)
Restored(frame, M) ==
    IF M = {} THEN {frame}
    ELSE LET c == CHOOSE c \in M : TRUE
         IN  UNION {{WithCol(f, c, g) : g \in [1..Len(f.rows) -> FillCells(c)]} :
                      f \in Restored(frame, M \ {c})}

Notice(place, subject) == [at |-> place, about |-> subject] \in info

\* the charts with the columns each reads
Charts ==
    { [name |-> "Sales Trends Over Time", reads |-> {"Order Date", "Sales", "Year"},
       needs |-> {"Order Date", "Sales"}, out |-> trend_df],
      [name |-> "Product Performance", reads |-> {"Sub-Category", "Sales"},
       needs |-> {"Sub-Category", "Sales"}, out |-> prod_df],
      [name |-> "Sales by Region", reads |-> {"Region", "Sales"},
       needs |-> {"Region", "Sales"}, out |-> reg_df],
      [name |-> "Shipping Analysis", reads |-> {"Ship Mode", "Sales"},
       needs |-> {"Ship Mode", "Sales"}, out |-> ship_df],
      [name |-> "Location Analysis", reads |-> {"State", "Sales"},
       needs |-> {"State", "Sales"}, out |-> state_sales] }

\* the metrics with the column each needs
Metrics ==
    { [name |-> "Total Sales", needs |-> {"Sales"}],
      [name |-> "Total Profit", needs |-> {"Profit"}],
      [name |-> "Total Orders", needs |-> {"Order ID"}],
      [name |-> "Avg Profit Margin", needs |-> {"Sales", "Profit"}] }

\* C6 (as claimed): when the dataset lacks one column, the run raises nothing
\* and every chart and every metric that needs the column is skipped with an
\* informational notice in its place.
C6_NeedingOutputsSkippedWithNotice ==
    \A c \in AllCols :
        (Loaded /\ df.columns = AllCols \ {c}) =>
            /\ raised = "none"
            /\ \A ch \in Charts :
                  c \in ch.needs => ~ch.out.shown /\ Notice("chart", ch.name)
            /\ \A m \in Metrics :
                  c \in m.needs => Notice("metric", m.name)

\* C6 (amended): when the dataset lacks columns, the run raises nothing; a
\* missing filter column gives a sidebar notice and no selection; a chart that
\* needs a missing column is skipped with its notice; a metric is never
\* skipped and never gets a notice, it falls back (total sales and profit 0,
\* margin 0, orders the row count); and every metric and chart that does not
\* read a missing column is what it is on the same filtered rows with the
\* column present, whatever the column holds.
C6_MissingColumnResilience ==
    LET M == AllCols \ df.columns
    IN  (Loaded /\ M # {}) =>
          /\ raised = "none"
          /\ \A c \in M \cap FilterCols : Sel(c).none /\ Notice("sidebar", c)
          /\ \A ch \in Charts :
                ch.needs \cap M # {} => ~ch.out.shown /\ Notice("chart", ch.name)
          /\ \A n \in info : n.at \in {"sidebar", "chart"}
          /\ "Sales" \in M => total_sales = 0 /\ IsZero(avg_profit_margin)
          /\ "Profit" \in M => total_profit = 0 /\ IsZero(avg_profit_margin)
          /\ "Order ID" \in M => total_orders = Len(filtered_df.rows)
          /\ \A cf \in Restored(filtered_df, M) :
                /\ "Sales" \notin M => total_sales = TotalSales(cf)
                /\ "Profit" \notin M => total_profit = TotalProfit(cf)
                /\ "Order ID" \notin M => total_orders = TotalOrders(cf)
                /\ {"Sales", "Profit"} \cap M = {} =>
                      avg_profit_margin = AvgProfitMargin(TotalSales(cf), TotalProfit(cf))
                /\ {"Order Date", "Sales", "Year"} \cap M = {} => trend_df = TrendDf(cf)
                /\ {"Sub-Category", "Sales"} \cap M = {} => prod_df \in ProdDf(cf)
                /\ {"Region", "Sales"} \cap M = {} => reg_df = RegDf(cf)
                /\ {"Ship Mode", "Sales"} \cap M = {} => ship_df \in ShipDf(cf)
                /\ {"State", "Sales"} \cap M = {} => state_sales \in StateSales(cf)

\* a dataset without State: the top-states chart is skipped with its notice,
\* the region chart is drawn
C6_Witness ==
    /\ Loaded
    /\ df.columns = AllCols \ {"State"}
    /\ Len(filtered_df.rows) >= 2
    /\ ~state_sales.shown /\ Notice("chart", "Location Analysis")
    /\ reg_df.shown /\ Len(reg_df.table) >= 2
    /\ raised = "none"

\* C7: total_orders is the number of distinct order identifiers among the
\* rows of the filtered frame (a missing identifier is none) when the
\* Order ID column exists, and the number of rows when it does not.
C7_OrderCount ==
    Loaded =>
        LET rows == filtered_df.rows
            firsts == {i \in 1..Len(rows) :
                          /\ ~rows[i].cell["Order ID"].na
                          /\ \A j \in 1..(i - 1) :
                                \/ rows[j].cell["Order ID"].na
                                \/ rows[j].cell["Order ID"].v # rows[i].cell["Order ID"].v}
        IN  IF "Order ID" \in filtered_df.columns
            THEN total_orders = Cardinality(firsts)
            ELSE total_orders = Len(rows)

\* two rows of one order in the filtered frame
C7_Witness ==
    /\ Loaded
    /\ "Order ID" \in filtered_df.columns
    /\ Len(filtered_df.rows) = 2
    /\ total_orders = 1
    /\ \A i \in 1..2 : ~filtered_df.rows[i].cell["Order ID"].na

\* C8: once loaded, the dataset is the same after every run of the script,
\* whatever selection the run was made with: same rows, same cells, same
\* order, and the cached frame likewise.
C8_DatasetNeverMutated ==
    [][Loaded => (df' = df /\ cache' = cache /\ df = cache.value)]_vars

\* a run after a change of selection left a filtered frame that differs
\* from the dataset
C8_Witness ==
    /\ Loaded
    /\ Len(df.rows) >= 2
    /\ ~FullSelection
    /\ filtered_df.rows # <<>>
    /\ filtered_df # df
    /\ df \in load_data(file)

\* rows in ascending date order, the rows without a date after the others
DateOrdered(rows) ==
    \A i, j \in 1..Len(rows) :
        i < j =>
            /\ rows[i].cell["Order Date"].na => rows[j].cell["Order Date"].na
            /\ (~rows[i].cell["Order Date"].na /\ ~rows[j].cell["Order Date"].na)
                   => rows[i].cell["Order Date"].v <= rows[j].cell["Order Date"].v

\* the position of the row with index x
PositionOf(rows, x) == CHOOSE i \in 1..Len(rows) : rows[i].index = x

\* C9: the dataset is in ascending order of order date from the load on (when
\* it has the column), and the filtered frame is a subsequence of it: the
\* rows kept are rows of the dataset in the dataset's order, so it is in
\* ascending date order too.
C9_OrderPreserved ==
    Loaded =>
        /\ "Order Date" \in df.columns =>
              DateOrdered(df.rows) /\ DateOrdered(filtered_df.rows)
        /\ \A i \in 1..Len(filtered_df.rows) :
              filtered_df.rows[i] \in Range(df.rows)
        /\ \A i, j \in 1..Len(filtered_df.rows) :
              i < j => PositionOf(df.rows, filtered_df.rows[i].index)
                          < PositionOf(df.rows, filtered_df.rows[j].index)

\* the load reordered the file's rows and the filter kept some of them
C9_Witness ==
    /\ Loaded
    /\ "Order Date" \in df.columns
    /\ \E i, j \in 1..Len(df.rows) : i < j /\ df.rows[i].index > df.rows[j].index
    /\ Len(filtered_df.rows) >= 3
    /\ Len(filtered_df.rows) < Len(df.rows)
    /\ \E i, j \in 1..Len(filtered_df.rows) :
          i < j /\ filtered_df.rows[i].index > filtered_df.rows[j].index

\* the summed sales of state s in the filtered frame
StateTotal(s) ==
    SumCells(SelectSeq(filtered_df.rows, LAMBDA r : isin(Col(r, "State"), {s})),
             "Sales")

\* C10: for a non-empty filtered frame with State and Sales columns the
\* top-states table has min(10, number of distinct states) rows, one per
\* state, each with the sum of that state's sales, in non-increasing order
\* of the sums, and no state left out has a larger sum than one listed.
C10_TopStates ==
    (Loaded /\ filtered_df.rows # <<>>
            /\ {"State", "Sales"} \subseteq filtered_df.columns) =>
        LET t      == state_sales.table
            states == Values(filtered_df, "State")
            listed == {t[i].key[1] : i \in 1..Len(t)}
        IN  /\ state_sales.shown
            /\ Len(t) = IF Cardinality(states) < TopN
                        THEN Cardinality(states) ELSE TopN
            /\ Cardinality(listed) = Len(t)
            /\ listed \subseteq states
            /\ \A i \in 1..Len(t) : t[i].Sales = StateTotal(t[i].key[1])
            /\ \A i, j \in 1..Len(t) : i < j => t[i].Sales >= t[j].Sales
            /\ \A s \in states \ listed :
                  \A i \in 1..Len(t) : StateTotal(s) <= t[i].Sales

\* more than ten states in the filtered frame, ten listed, and a state left
\* out whose sum equals the last listed one
C10_Witness ==
    /\ Loaded
    /\ state_sales.shown
    /\ Cardinality(Values(filtered_df, "State")) > TopN
    /\ Len(state_sales.table) = TopN
    /\ \E s \in Values(filtered_df, "State") :
          /\ \A i \in 1..TopN : state_sales.table[i].key[1] # s
          /\ StateTotal(s) = state_sales.table[TopN].Sales

=============================================================================
